---- MODULE Spec2Model ----
(***************************************************************************)
(* The Loader script (createDB: main) and the Query Service handler        *)
(* (pages/api/hashicorp.ts: handler) over one SQLite database file.        *)
(*                                                                         *)
(* The database file is the tables that exist and their rows.  The Loader  *)
(* is one process whose main() has a single await (the Content API fetch)  *)
(* followed by a synchronous try/catch/finally; the handler is one         *)
(* synchronous function of another process.  SQL text values are TLA+      *)
(* strings; Chars gives the characters of the strings that the LIKE        *)
(* operator and the SQL tokenizer look into.                               *)
(***************************************************************************)
EXTENDS Integers, Sequences, FiniteSets, TLC

VARIABLES
    tables,        \* names of the tables that exist in hashicorp.sqlite
    DEPARTMENTS,   \* rows [ID, NAME, PARENT]
    PEOPLE,        \* rows [ID, NAME, AVATAR_URL, DEPARTMENT_ID]
    pc,            \* position of the Loader's main()
    handle,        \* TRUE while the Loader's `db` handle is open
    depts,         \* result.allDepartments, the argument of the insertDepartments call
    people,        \* result.allPeople, the argument of the insertPeople call
    error,         \* the exception raised in this run: [kind, stage]
    console,       \* what this run wrote with console.info / console.error
    committed,     \* the transactions of this run that committed
    pre,           \* the rows of both tables when the current transaction began
    loaded,        \* history: for each committed person, the department name the feed reported
    prevOk,        \* history: the department feed of the run before, if that run succeeded
    rerun,         \* history: this run's department feed equals prevOk's
    req,           \* the request the handler last served
    res            \* what the handler did with it

vars == <<tables, DEPARTMENTS, PEOPLE, pc, handle, depts, people, error, console,
          committed, pre, loaded, prevOk, rerun, req, res>>

dbVars     == <<tables, DEPARTMENTS, PEOPLE>>
loaderVars == <<pc, handle, depts, people, error, console, committed, pre, prevOk, rerun>>
queryVars  == <<req, res>>

-----------------------------------------------------------------------------
(* Bounds and input domains *)

MaxDepts  == 2      \* longest allDepartments list the feed returns
MaxPeople == 2      \* longest allPeople list the feed returns

NULL == "<null>"    \* SQL NULL / JS null or undefined

DeptIds     == {"d1", "d2"}
DeptNames   == {"Eng", "Ops"}
PersonIds   == {"p1", "p2"}

\* The characters of every string whose content the code inspects.
Chars ==
    [s \in {"", "an", "_", "'", "Anna", "Bob"} |->
        CASE s = ""     -> <<>>
          [] s = "an"   -> <<"a", "n">>
          [] s = "_"    -> <<"_">>
          [] s = "'"    -> <<"'">>
          [] s = "Anna" -> <<"A", "n", "n", "a">>
          [] s = "Bob"  -> <<"B", "o", "b">>]

\* A department node of the feed: { id, name, parent { id } }.  A parent is
\* another department or none; one node has no name.
DepartmentNodes ==
    { d \in [id : DeptIds, name : DeptNames, parent : DeptIds \cup {NULL}] :
        d.parent # d.id }
        \cup {[id |-> "d2", name |-> NULL, parent |-> NULL]}

\* A person record of the feed: { id, name, avatar { url }, department { name } }.
PersonRecords ==
    { [id |-> i,
       name |-> IF i = "p1" THEN "Anna" ELSE "Bob",
       avatar |-> IF i = "p1" THEN "a.png" ELSE NULL,
       department |-> dn] : i \in PersonIds, dn \in DeptNames \cup {NULL} }

SeqsUpTo(S, n) == UNION { [1..k -> S] : k \in 0..n }

DeptFeeds   == SeqsUpTo(DepartmentNodes, MaxDepts)
PeopleFeeds == SeqsUpTo(PersonRecords, MaxPeople)

\* The values of the `search` query parameter; NULL is an absent parameter.
Searches == {NULL, "", "an", "_", "'"}

NoError    == [kind |-> "none", stage |-> "none"]
NoSnapshot == [D |-> {}, P |-> {}]
NoRequest  == [active |-> FALSE, search |-> NULL]
NoResponse == [status |-> 0, results |-> {}, threw |-> FALSE, logged |-> FALSE,
               opened |-> FALSE, closed |-> FALSE]

-----------------------------------------------------------------------------
(* The SQL the Loader runs *)

\* main, lines 104-110: the bind object made from one department node.
MapDepartment(d) ==
    [id |-> d.id,
     name |-> d.name,
     parent |-> IF d.parent \in {NULL, ""} THEN NULL ELSE d.parent]

\* main, lines 125-132: the bind object made from one person record.
MapPerson(p) ==
    [id |-> p.id,
     name |-> p.name,
     avatar_url |-> IF p.avatar \in {NULL, ""} THEN NULL ELSE p.avatar,
     department_name |-> p.department]

\* Lines 104 and 125: result.allDepartments.map(...), result.allPeople?.map(...).
DepartmentBatch(feed) == [i \in 1..Len(feed) |-> MapDepartment(feed[i])]
PeopleBatch(feed)     == [i \in 1..Len(feed) |-> MapPerson(feed[i])]

DepartmentRow(b) == [ID |-> b.id, NAME |-> b.name, PARENT |-> b.parent]

\* Mutation of DepartmentRowError: ID is not a primary key.
DepartmentRowErrorNoPrimaryKey(b, table) ==
    IF b.id = NULL \/ b.name = NULL THEN "notnull" ELSE "none"

\* DEPARTMENTS DDL, lines 64-69: the constraints checked when a row is inserted.
\* The PARENT foreign key is DEFERRABLE INITIALLY DEFERRED and is not among them.
DepartmentRowError(b, table) ==
    IF b.id = NULL \/ b.name = NULL THEN "notnull"
    ELSE IF \E r \in table : r.ID = b.id THEN "pk"
    ELSE "none"

\* Mutation of DeferredForeignKeyOk: the foreign key is never enforced.
ForeignKeyNotEnforced(table) == TRUE

\* The deferred PARENT foreign key, checked when the transaction commits.
DeferredForeignKeyOk(table) ==
    \A r \in table : r.PARENT # NULL => \E q \in table : q.ID = r.PARENT

\* The loop of insertDepartments, lines 90-92: stops at the first row that throws.
RECURSIVE InsertDepartmentRows(_, _)
InsertDepartmentRows(rows, table) ==
    IF rows = <<>> THEN [err |-> "none", table |-> table]
    ELSE LET e == DepartmentRowError(Head(rows), table) IN
         IF e # "none" THEN [err |-> e, table |-> table]
         ELSE InsertDepartmentRows(Tail(rows), table \cup {DepartmentRow(Head(rows))})

\* Mutation of insertDepartments: the loop runs outside a transaction, so the
\* rows inserted before a throw stay.
insertDepartmentsNoRollback(rows, table) ==
    LET r == InsertDepartmentRows(rows, table) IN
    IF r.err = "none" /\ ~DeferredForeignKeyOk(r.table)
    THEN [err |-> "fk", table |-> r.table]
    ELSE r

\* db.transaction over that loop: BEGIN, the loop, COMMIT; a throw from the loop
\* or from COMMIT rolls back to the rows the table had at BEGIN.
insertDepartments(rows, table) ==
    LET r == InsertDepartmentRows(rows, table) IN
    IF r.err # "none" THEN [err |-> r.err, table |-> table]
    ELSE IF ~DeferredForeignKeyOk(r.table) THEN [err |-> "fk", table |-> table]
    ELSE [err |-> "none", table |-> r.table]

\* Mutation of SelectDepartmentId: the subquery has no WHERE clause.
SelectAnyDepartmentId(name, departments) ==
    IF departments = {} THEN {NULL} ELSE {d.ID : d \in departments}

\* The scalar subquery of insertPersonRow, line 115: the ID of a row whose NAME
\* equals the bound name (which row, when several match, is up to the scan
\* order), or NULL when no row matches.
SelectDepartmentId(name, departments) ==
    LET ids == {d.ID : d \in {r \in departments : r.NAME = name}} IN
    IF ids = {} THEN {NULL} ELSE ids

PersonRow(b, deptId) ==
    [ID |-> b.id, NAME |-> b.name, AVATAR_URL |-> b.avatar_url, DEPARTMENT_ID |-> deptId]

\* PEOPLE DDL, lines 73-79: the constraints checked when a row is inserted.
PersonRowError(b, deptId, table, departments) ==
    IF b.id = NULL \/ b.name = NULL \/ deptId = NULL THEN "notnull"
    ELSE IF \E r \in table : r.ID = b.id THEN "pk"
    ELSE IF ~\E d \in departments : d.ID = deptId THEN "fk"
    ELSE "none"

\* The loop of insertPeople, lines 119-121: every outcome it can have.  An
\* undefined department_name cannot be bound and throws before the statement runs.
RECURSIVE InsertPersonRows(_, _, _)
InsertPersonRows(rows, table, departments) ==
    IF rows = <<>> THEN {[err |-> "none", table |-> table]}
    ELSE LET b == Head(rows) IN
         IF b.department_name = NULL THEN {[err |-> "type", table |-> table]}
         ELSE UNION {
                LET e == PersonRowError(b, id, table, departments) IN
                IF e # "none" THEN {[err |-> e, table |-> table]}
                ELSE InsertPersonRows(Tail(rows), table \cup {PersonRow(b, id)}, departments)
                : id \in SelectDepartmentId(b.department_name, departments) }

\* Mutation of insertPeople: the loop runs outside a transaction.
insertPeopleNoRollback(rows, table, departments) ==
    InsertPersonRows(rows, table, departments)

\* db.transaction over that loop.
insertPeople(rows, table, departments) ==
    { IF r.err # "none" THEN [err |-> r.err, table |-> table] ELSE r
      : r \in InsertPersonRows(rows, table, departments) }

-----------------------------------------------------------------------------
(* The Loader: main() *)

Init ==
    /\ tables = {}
    /\ DEPARTMENTS = {}
    /\ PEOPLE = {}
    /\ pc = "idle"
    /\ handle = FALSE
    /\ depts = <<>>
    /\ people = <<>>
    /\ error = NoError
    /\ console = <<>>
    /\ committed = {}
    /\ pre = NoSnapshot
    /\ loaded = {}
    /\ prevOk = [ok |-> FALSE, depts |-> <<>>]
    /\ rerun = FALSE
    /\ req = NoRequest
    /\ res = NoResponse

\* Lines 47-51: open hashicorp.sqlite, set the journal mode, send the query.
Start ==
    /\ pc = "idle"
    /\ pc' = "await"
    /\ handle' = TRUE
    /\ UNCHANGED <<dbVars, depts, people, error, console, committed, pre, loaded,
                   prevOk, rerun, queryVars>>

\* Line 51: the awaited executeQuery resolves; control enters the try block.
FetchOk ==
    /\ pc = "await"
    /\ res = NoResponse
    /\ pc' = "try"
    /\ UNCHANGED <<dbVars, handle, depts, people, error, console, committed, pre,
                   loaded, prevOk, rerun, queryVars>>

\* Line 51: the awaited executeQuery rejects.  The await is outside the try
\* block, so the rejection leaves main at once: no catch, no finally.
FetchFail ==
    /\ pc = "await"
    /\ res = NoResponse
    /\ pc' = "rejected"
    /\ error' = [kind |-> "network", stage |-> "fetch"]
    /\ prevOk' = [ok |-> FALSE, depts |-> <<>>]
    /\ UNCHANGED <<dbVars, handle, depts, people, console, committed, pre, loaded,
                   rerun, queryVars>>

\* Lines 61-83: foreign_keys = ON and both CREATE TABLE IF NOT EXISTS.
CreateTables ==
    /\ pc = "try"
    /\ tables' = tables \cup {"DEPARTMENTS", "PEOPLE"}
    /\ pc' = "insertDepartments"
    /\ UNCHANGED <<DEPARTMENTS, PEOPLE, handle, depts, people, error, console,
                   committed, pre, loaded, prevOk, rerun, queryVars>>

\* Lines 61-83: a statement of the schema set-up throws (the file is locked or
\* cannot be written).
CreateTablesFail ==
    /\ pc = "try"
    /\ pc' = "catch"
    /\ error' = [kind |-> "sql", stage |-> "createTables"]
    /\ prevOk' = [ok |-> FALSE, depts |-> <<>>]
    /\ UNCHANGED <<dbVars, handle, depts, people, console, committed, pre, loaded,
                   rerun, queryVars>>

\* Lines 104 and 125: the result lacks the list (`.map` of undefined at line
\* 104, `for ... of undefined` inside the people transaction at line 119).
MalformedResult ==
    /\ pc \in {"insertDepartments", "insertPeople"}
    /\ pc' = "catch"
    /\ error' = [kind |-> "type", stage |-> pc]
    /\ pre' = [D |-> DEPARTMENTS, P |-> PEOPLE]
    /\ prevOk' = [ok |-> FALSE, depts |-> <<>>]
    /\ UNCHANGED <<dbVars, handle, depts, people, console, committed, loaded,
                   rerun, queryVars>>

\* Lines 89-111: the departments transaction over result.allDepartments.
InsertDepartments ==
    /\ pc = "insertDepartments"
    /\ \E feed \in DeptFeeds :
         LET r == insertDepartments(DepartmentBatch(feed), DEPARTMENTS) IN
         /\ depts' = feed
         /\ rerun' = (prevOk.ok /\ prevOk.depts = feed)
         /\ pre' = [D |-> DEPARTMENTS, P |-> PEOPLE]
         /\ DEPARTMENTS' = r.table
         /\ IF r.err = "none"
            THEN /\ pc' = "insertPeople"
                 /\ committed' = {"departments"}
                 /\ error' = error
            ELSE /\ pc' = "catch"
                 /\ committed' = committed
                 /\ error' = [kind |-> r.err, stage |-> "insertDepartments"]
    /\ prevOk' = [ok |-> FALSE, depts |-> <<>>]
    /\ UNCHANGED <<tables, PEOPLE, handle, people, console, loaded, queryVars>>

\* Lines 113-135: the people transaction over result.allPeople and, when it
\* commits, the success message.
InsertPeople ==
    /\ pc = "insertPeople"
    /\ \E feed \in PeopleFeeds :
         \E r \in insertPeople(PeopleBatch(feed), PEOPLE, DEPARTMENTS) :
            /\ people' = feed
            /\ pre' = [D |-> DEPARTMENTS, P |-> PEOPLE]
            /\ PEOPLE' = r.table
            /\ IF r.err = "none"
               THEN /\ pc' = "finally"
                    /\ committed' = committed \cup {"people"}
                    /\ console' = Append(console, "info")
                    /\ error' = error
                    /\ loaded' = loaded \cup
                          { [id |-> feed[i].id, department_name |-> feed[i].department]
                            : i \in 1..Len(feed) }
                    /\ prevOk' = [ok |-> TRUE, depts |-> depts]
               ELSE /\ pc' = "catch"
                    /\ committed' = committed
                    /\ console' = console
                    /\ error' = [kind |-> r.err, stage |-> "insertPeople"]
                    /\ loaded' = loaded
                    /\ prevOk' = prevOk
    /\ UNCHANGED <<tables, DEPARTMENTS, handle, depts, rerun, queryVars>>

\* Lines 136-137: catch (e) { console.error(e) }.  The arguments of the call
\* that threw are out of scope here.
Catch ==
    /\ pc = "catch"
    /\ console' = Append(console, "error")
    /\ pc' = "finally"
    /\ depts' = <<>>
    /\ people' = <<>>
    /\ pre' = NoSnapshot
    /\ rerun' = FALSE
    /\ UNCHANGED <<dbVars, handle, error, committed, loaded, prevOk, queryVars>>

\* Lines 138-141: finally { db.close() }, and main returns.
Finally ==
    /\ pc = "finally"
    /\ handle' = FALSE
    /\ pc' = "returned"
    /\ UNCHANGED <<dbVars, depts, people, error, console, committed, pre, loaded,
                   prevOk, rerun, queryVars>>

\* The Loader process ends; the next `npm run create-db` starts from nothing
\* but the database file.
Exit ==
    /\ pc \in {"returned", "rejected"}
    /\ pc' = "idle"
    /\ handle' = FALSE
    /\ depts' = <<>>
    /\ people' = <<>>
    /\ error' = NoError
    /\ console' = <<>>
    /\ committed' = {}
    /\ pre' = NoSnapshot
    /\ rerun' = FALSE
    /\ UNCHANGED <<dbVars, loaded, prevOk, queryVars>>

-----------------------------------------------------------------------------
(* The Query Service: handler() *)

\* Line 19: query.search || ''.
SearchParam(search) == IF search = NULL THEN "" ELSE search

\* Line 39: the characters of the literal '%${searchParam}%' as they stand in
\* the SQL text, quotes included.
LikeLiteralText(searchParam) == <<"'", "%">> \o Chars[searchParam] \o <<"%", "'">>

\* SQLite's tokenizer on that text, from the character after the opening quote:
\* '' inside a literal is one quote character, a single quote ends the literal.
\* The statement parses when the literal ends with the text; with the searches
\* of this model, whatever is left after an earlier end is not a valid rest of
\* the statement.  The result is the pattern the literal denotes.
RECURSIVE ScanLiteral(_, _, _)
ScanLiteral(text, i, pattern) ==
    IF i > Len(text) THEN [ok |-> FALSE, pattern |-> pattern]
    ELSE IF text[i] # "'" THEN ScanLiteral(text, i + 1, Append(pattern, text[i]))
    ELSE IF i < Len(text) /\ text[i + 1] = "'"
         THEN ScanLiteral(text, i + 2, Append(pattern, "'"))
    ELSE [ok |-> i = Len(text), pattern |-> pattern]

\* ASCII case folding, as LIKE does it.
Lower(c) ==
    CASE c = "A" -> "a"
      [] c = "B" -> "b"
      [] OTHER   -> c

\* SQLite's LIKE: % matches any run of characters, _ any one character, any
\* other character itself without regard to ASCII case.
RECURSIVE Like(_, _)
Like(pattern, str) ==
    IF pattern = <<>> THEN str = <<>>
    ELSE IF Head(pattern) = "%"
         THEN Like(Tail(pattern), str) \/ (str # <<>> /\ Like(pattern, Tail(str)))
    ELSE IF Head(pattern) = "_"
         THEN str # <<>> /\ Like(Tail(pattern), Tail(str))
    ELSE /\ str # <<>>
         /\ Lower(Head(pattern)) = Lower(Head(str))
         /\ Like(Tail(pattern), Tail(str))

\* Line 42: db.prepare(sql) throws when a table of the statement is missing or
\* the text does not parse.
PrepareOk(searchParam, tbls) ==
    /\ {"PEOPLE", "DEPARTMENTS"} \subseteq tbls
    /\ searchParam # "" => ScanLiteral(LikeLiteralText(searchParam), 2, <<>>).ok

\* Lines 23-40: the WHERE clause, present only for a non-empty searchParam.
WhereClause(searchParam, name) ==
    searchParam # "" =>
        Like(ScanLiteral(LikeLiteralText(searchParam), 2, <<>>).pattern, Chars[name])

\* Lines 23-33 and 47: the rows of the inner join that pass the WHERE clause.
SelectRows(searchParam, ppl, departments) ==
    { [PERSON_ID |-> p.ID, PERSON_NAME |-> p.NAME, AVATAR_URL |-> p.AVATAR_URL,
       DEPARTMENT_ID |-> d.ID, DEPARTMENT_NAME |-> d.NAME]
      : <<p, d>> \in { pd \in ppl \X departments :
                         /\ pd[1].DEPARTMENT_ID = pd[2].ID
                         /\ WhereClause(searchParam, pd[1].NAME) } }

\* Lines 50-62: a row as a PersonRecord.
ToPersonRecord(row) ==
    [id |-> row.PERSON_ID,
     name |-> row.PERSON_NAME,
     avatar |-> [url |-> row.AVATAR_URL],
     department |-> [id |-> row.DEPARTMENT_ID, name |-> row.DEPARTMENT_NAME]]

\* Lines 14-71, one request.  The connection is opened at line 21 and the
\* statement prepared at line 42, both before the try block: a throw from
\* prepare leaves the handler at once, past the finally and past line 70.  A
\* throw from stmt.all() (the file is locked or unreadable) is caught and logged.
\*
\* The handler runs in another process than the Loader.  Requests are taken
\* while the Loader is idle or awaiting the fetch, and the Loader resumes once
\* the request is over: the contents the database has between the Loader's two
\* commits are also the contents a run leaves whose people transaction aborts,
\* so the handler meets every database state a request can meet.
Handler ==
    /\ pc \in {"idle", "await"}
    /\ res = NoResponse
    /\ \E search \in Searches, allThrows \in BOOLEAN :
         LET searchParam == SearchParam(search) IN
         /\ req' = [active |-> TRUE, search |-> search]
         /\ IF ~PrepareOk(searchParam, tables)
            THEN /\ allThrows = FALSE
                 /\ res' = [status |-> 0, results |-> {}, threw |-> TRUE,
                            logged |-> FALSE, opened |-> TRUE, closed |-> FALSE]
            ELSE IF allThrows
            THEN res' = [status |-> 200, results |-> {}, threw |-> FALSE,
                         logged |-> TRUE, opened |-> TRUE, closed |-> TRUE]
            ELSE res' = [status |-> 200,
                         results |-> { ToPersonRecord(row)
                                       : row \in SelectRows(searchParam, PEOPLE, DEPARTMENTS) },
                         threw |-> FALSE, logged |-> FALSE, opened |-> TRUE,
                         closed |-> TRUE]
    /\ UNCHANGED <<dbVars, loaderVars, loaded>>

\* The request is over: the response was delivered, or the framework reported
\* the uncaught exception.
RequestDone ==
    /\ res # NoResponse
    /\ req' = NoRequest
    /\ res' = NoResponse
    /\ UNCHANGED <<dbVars, loaderVars, loaded>>

-----------------------------------------------------------------------------

Next ==
    \/ Start
    \/ FetchOk
    \/ FetchFail
    \/ CreateTables
    \/ CreateTablesFail
    \/ MalformedResult
    \/ InsertDepartments
    \/ InsertPeople
    \/ Catch
    \/ Finally
    \/ Exit
    \/ Handler
    \/ RequestDone

Spec == Init /\ [][Next]_vars

-----------------------------------------------------------------------------
(* Properties *)

AfterDepartmentsTx ==
    \/ pc = "insertPeople"
    \/ pc = "catch" /\ error.stage = "insertDepartments" /\ error.kind # "type"

AfterPeopleTx ==
    \/ pc = "finally" /\ "people" \in committed
    \/ pc = "catch" /\ error.stage = "insertPeople" /\ error.kind # "type"

BatchRows(feed) == { DepartmentRow(MapDepartment(feed[i])) : i \in 1..Len(feed) }

\* C1: every DEPARTMENTS row with a non-null PARENT has the ID of some
\* DEPARTMENTS row as its PARENT, whatever the order of the feed; and once the
\* departments transaction has committed, a department the feed gave no parent
\* is a row with PARENT null.
ParentsExistAndRootsAreNull ==
    /\ \A r \in DEPARTMENTS : r.PARENT # NULL => \E q \in DEPARTMENTS : q.ID = r.PARENT
    /\ pc = "insertPeople" =>
         \A i \in 1..Len(depts) :
            depts[i].parent = NULL =>
               [ID |-> depts[i].id, NAME |-> depts[i].name, PARENT |-> NULL] \in DEPARTMENTS

\* C1 witness: a committed batch that lists a child before its parent.
ChildBeforeParentCommitted ==
    /\ pc = "insertPeople"
    /\ Len(depts) = 2
    /\ depts[1].parent = depts[2].id
    /\ depts[2].parent = NULL
    /\ BatchRows(depts) \subseteq DEPARTMENTS

\* A batch has a failing row: a missing name, an ID that a row of the table or
\* another row of the batch has, or a parent that neither the table nor the
\* batch holds.
BatchHasFault(feed, table) ==
    \E i \in 1..Len(feed) :
       \/ feed[i].name = NULL
       \/ \E r \in table : r.ID = feed[i].id
       \/ \E j \in 1..Len(feed) : j # i /\ feed[j].id = feed[i].id
       \/ /\ feed[i].parent # NULL
          /\ ~\E r \in table : r.ID = feed[i].parent
          /\ ~\E j \in 1..Len(feed) : feed[j].id = feed[i].parent

\* C2: the departments transaction is all-or-nothing.  If a row of the batch
\* fails, the transaction throws and DEPARTMENTS holds exactly the rows it held
\* before (no row inserted by the batch is left); otherwise it commits and
\* DEPARTMENTS holds the rows it held before and every row of the batch.
DepartmentsAllOrNothing ==
    AfterDepartmentsTx =>
       IF BatchHasFault(depts, pre.D)
       THEN /\ pc = "catch"
            /\ DEPARTMENTS = pre.D
            /\ committed = {}
       ELSE /\ pc = "insertPeople"
            /\ DEPARTMENTS = pre.D \cup BatchRows(depts)
            /\ committed = {"departments"}

\* C2 witness: a batch whose first row was inserted and whose second row failed.
SecondRowFailedAfterFirstInserted ==
    /\ pc = "catch"
    /\ error.stage = "insertDepartments"
    /\ Len(depts) = 2
    /\ ~BatchHasFault(<<depts[1]>>, pre.D)
    /\ BatchHasFault(depts, pre.D)

\* C3: every person the handler returns was loaded, and carries the id and name
\* of a DEPARTMENTS row whose name is the department name the feed reported for
\* that person; an unfiltered query returns every loaded person.
Succeeded == req.active /\ res.status = 200 /\ ~res.logged

ReturnedDepartmentIsTheReportedOne ==
    Succeeded =>
       /\ \A r \in res.results :
             /\ \E l \in loaded : l.id = r.id /\ l.department_name = r.department.name
             /\ \E d \in DEPARTMENTS : d.ID = r.department.id /\ d.NAME = r.department.name
       /\ SearchParam(req.search) = "" =>
             \A l \in loaded : \E r \in res.results : r.id = l.id

\* C3 witness: a person returned while a department of another name is stored.
ReturnedWithOtherDepartmentStored ==
    /\ Succeeded
    /\ \E r \in res.results : \E d \in DEPARTMENTS : d.NAME # r.department.name

\* A person record reports a department name that no row of the table has.
Unmatched(feed, departments) ==
    \E i \in 1..Len(feed) :
       /\ feed[i].department # NULL
       /\ ~\E d \in departments : d.NAME = feed[i].department

\* C4: when a person of the feed reports a department name that matches no
\* DEPARTMENTS row, the people transaction throws on a constraint (NOT NULL when
\* that person is the first of the feed), PEOPLE holds the rows it held before,
\* and the departments this run committed are still in DEPARTMENTS.
UnmatchedDepartmentAbortsPeople ==
    (AfterPeopleTx /\ Unmatched(people, pre.D)) =>
       /\ pc = "catch"
       /\ error.kind \in {"notnull", "pk", "type"}
       /\ (people[1].department # NULL
             /\ ~(\E d \in pre.D : d.NAME = people[1].department))
            => error.kind = "notnull"
       /\ PEOPLE = pre.P
       /\ committed = {"departments"}
       /\ DEPARTMENTS = pre.D
       /\ BatchRows(depts) \subseteq DEPARTMENTS

\* C4 witness: the first person was inserted, the second matched no department,
\* and this run had committed a department.
SecondPersonUnmatched ==
    /\ pc = "catch"
    /\ error.stage = "insertPeople"
    /\ Len(people) = 2
    /\ ~Unmatched(<<people[1]>>, pre.D)
    /\ people[1].department # NULL
    /\ ~\E r \in pre.P : r.ID = people[1].id
    /\ Unmatched(<<people[2]>>, pre.D)
    /\ depts # <<>>

\* C5: a run whose department feed is non-empty and is the feed of the run
\* before, which succeeded, throws a primary-key violation in the departments
\* transaction, commits nothing and leaves both tables as they were.
SecondRunFailsOnPrimaryKey ==
    (rerun /\ depts # <<>>) =>
       /\ pc = "catch"
       /\ error = [kind |-> "pk", stage |-> "insertDepartments"]
       /\ committed = {}
       /\ DEPARTMENTS = pre.D
       /\ PEOPLE = pre.P

\* C5 witness: the second run of a feed with departments and people.
SecondRunOfSameFeed ==
    /\ rerun
    /\ depts # <<>>
    /\ pc = "catch"
    /\ PEOPLE # {}

\* C6: whenever main has finished, the database handle is closed.
HandleClosedWhenMainEnds ==
    pc \in {"returned", "rejected"} => ~handle

\* C7: main never ends with an uncaught error; an error raised in a run is
\* logged with console.error by the time main ends; the success message is
\* logged only when both transactions committed.
EveryErrorCaughtAndLogged ==
    /\ pc # "rejected"
    /\ (pc = "returned" /\ error # NoError) => console = <<"error">>
    /\ (\E i \in 1..Len(console) : console[i] = "info")
          => committed = {"departments", "people"}

\* C8: every request is answered with status 200 and a results list, empty
\* when an internal error occurred.
AlwaysResponds200 ==
    req.active =>
       /\ res.status = 200
       /\ ~res.threw
       /\ res.logged => res.results = {}

\* C9: every request opens a connection and closes it before the handler ends.
ConnectionClosedPerRequest ==
    req.active => res.opened /\ res.closed

\* str contains sub, without regard to ASCII case.
Contains(str, sub) ==
    \E k \in 0..(Len(str) - Len(sub)) :
       \A j \in 1..Len(sub) : Lower(str[k + j]) = Lower(sub[j])

\* C10: the results are exactly the people, joined to their department, whose
\* name contains the search value as a literal substring.
ResultsAreLiteralSubstringMatches ==
    Succeeded =>
       res.results =
          { ToPersonRecord([PERSON_ID |-> pd[1].ID, PERSON_NAME |-> pd[1].NAME,
                            AVATAR_URL |-> pd[1].AVATAR_URL,
                            DEPARTMENT_ID |-> pd[2].ID, DEPARTMENT_NAME |-> pd[2].NAME])
            : pd \in { x \in PEOPLE \X DEPARTMENTS :
                         /\ x[1].DEPARTMENT_ID = x[2].ID
                         /\ Contains(Chars[x[1].NAME], Chars[SearchParam(req.search)]) } }

====
